---- MODULE Spec2Model ----
(***************************************************************************)
(* PharmAI dashboard (src/app.py): a Streamlit script that is re-executed  *)
(* top to bottom on every user interaction.  The model follows one script  *)
(* run statement group by statement group, keeps the process-wide          *)
(* st.cache_data entry of load_data across reruns, and lets the backing    *)
(* parquet file change underneath the process.                             *)
(*                                                                         *)
(* A DataFrame is a sequence of rows; every row carries its index label,   *)
(* so boolean indexing, idxmax and .loc behave as in pandas.  Preferred    *)
(* terms (pt) are natural numbers standing for the terms in their lexical  *)
(* order, which is the order groupby sorts them in.                        *)
(***************************************************************************)
EXTENDS Integers, Sequences, FiniteSets, TLC

\* ------------------------------------------------------------------ bounds
MaxRows == 3
WideExtra == 1
TopN == 10

Drugs == {"A", "B"}
Years == {2022, 2023}
YearsExt == {2021} \cup Years \cup {2024}
Counts == {0, 1}
SmallTerms == {1, 2}
Placeholder == "Type to search..."

\* rows of the summary table as they are stored in the file (no index label)
RowsA == [drugname : {"A"}, pt : SmallTerms, year : Years, count : Counts]
RowsB == [drugname : {"B"}, pt : {1}, year : Years, count : {1}]
Rows == RowsA \cup RowsB

SeqsUpTo(S, n) == UNION {[1..k -> S] : k \in 0..n}

SmallTables == SeqsUpTo(Rows, MaxRows)

\* tables with more than TopN distinct terms: n terms in descending term
\* order, term a with count 0 and the others 1, then a second row for term b
WideTable(n, a, b) ==
  [i \in 1..(n + 1) |->
     IF i <= n
       THEN [drugname |-> "A", pt |-> n + 1 - i, year |-> 2022,
             count |-> IF n + 1 - i = a THEN 0 ELSE 1]
       ELSE [drugname |-> "A", pt |-> b, year |-> 2023, count |-> 1]]

WideTables ==
  {WideTable(n, a, b) : n \in {TopN + k : k \in 1..WideExtra},
                        a \in 1..(TopN + 1), b \in 1..(TopN + 1)}

Tables == SmallTables \cup WideTables

\* what an upload replaces the file with while the process is running
Replacement == <<[drugname |-> "B", pt |-> 1, year |-> 2023, count |-> 1]>>

\* --------------------------------------------------------------- the state
VARIABLES
  file,       \* global_safety_summary.parquet: [exists, rows]
  cache,      \* st.cache_data entry of load_data(): <<>> or <<returned value>>
  loadCalls,  \* how many times the body of load_data has run in this process
  pc,         \* position of the current script run
  ns,         \* the script's namespace: the names bound so far in this run
  rendered    \* the UI elements emitted so far in this run, in order

vars == <<file, cache, loadCalls, pc, ns, rendered>>

NoFile == [exists |-> FALSE, rows |-> <<>>]
FileWith(t) == [exists |-> TRUE, rows |-> t]

\* the two kinds of value load_data returns
NoneV == [isNone |-> TRUE, rows |-> <<>>]
Frame(r) == [isNone |-> FALSE, rows |-> r]

EmptyNs == [n \in {} |-> 0]
Bound(name) == name \in DOMAIN ns

\* ------------------------------------------------------- pandas operations
\* pd.read_parquet: the stored rows under a default RangeIndex 0..n-1
read_parquet(t) ==
  [i \in 1..Len(t) |->
     [index |-> i - 1, drugname |-> t[i].drugname, pt |-> t[i].pt,
      year |-> t[i].year, count |-> t[i].count]]

\* body of load_data
load_data(f) == IF ~f.exists THEN NoneV ELSE Frame(read_parquet(f.rows))

\* variant: the upper end of the period left out
between_exclusive(y, lo, hi) == lo <= y /\ y < hi

\* Series.between(lo, hi), inclusive on both sides
between(y, lo, hi) == lo <= y /\ y <= hi

\* mask = (df['drugname'] == selected_drug) & df['year'].between(lo, hi)
mask(df, drug, lo, hi) ==
  [i \in 1..Len(df) |-> df[i].drugname = drug /\ between(df[i].year, lo, hi)]

\* df[mask]: the rows whose mask entry is True, in order, labels kept
RECURSIVE BoolIndex(_, _)
BoolIndex(df, m) ==
  IF df = <<>> THEN <<>>
  ELSE IF m[1] THEN <<Head(df)>> \o BoolIndex(Tail(df), Tail(m))
       ELSE BoolIndex(Tail(df), Tail(m))

\* data = df[mask]
Filter(df, drug, lo, hi) == BoolIndex(df, mask(df, drug, lo, hi))

\* data['count'].sum()
RECURSIVE SumCount(_)
SumCount(d) == IF d = <<>> THEN 0 ELSE Head(d).count + SumCount(Tail(d))

\* variant: the last row holding the maximum
RECURSIVE IdxMaxLast(_, _)
IdxMaxLast(d, best) ==
  IF d = <<>> THEN best.index
  ELSE IF Head(d).count >= best.count THEN IdxMaxLast(Tail(d), Head(d))
       ELSE IdxMaxLast(Tail(d), best)

\* data['count'].idxmax(): label of the first row holding the maximum
RECURSIVE IdxMaxFrom(_, _)
IdxMaxFrom(d, best) ==
  IF d = <<>> THEN best.index
  ELSE IF Head(d).count > best.count THEN IdxMaxFrom(Tail(d), Head(d))
       ELSE IdxMaxFrom(Tail(d), best)

idxmax(d) == IdxMaxFrom(Tail(d), Head(d))

\* data.loc[label] under unique labels
loc(d, label) == d[CHOOSE i \in 1..Len(d) : d[i].index = label]

\* data['pt'].nunique()
nunique(d) == Cardinality({d[i].pt : i \in 1..Len(d)})

\* variant: keys in descending order
RECURSIVE SortedKeysDesc(_)
SortedKeysDesc(S) ==
  IF S = {} THEN <<>>
  ELSE LET m == CHOOSE x \in S : \A y \in S : x >= y
       IN <<m>> \o SortedKeysDesc(S \ {m})

\* the sorted keys of a groupby (sort=True)
RECURSIVE SortedKeys(_)
SortedKeys(S) ==
  IF S = {} THEN <<>>
  ELSE LET m == CHOOSE x \in S : \A y \in S : x <= y
       IN <<m>> \o SortedKeys(S \ {m})

\* variant: a later row of a group overwrites the earlier ones
RECURSIVE GroupLast(_, _, _)
GroupLast(d, col, key) ==
  IF d = <<>> THEN 0
  ELSE LET rest == GroupLast(Tail(d), col, key)
       IN IF \E i \in 1..Len(Tail(d)) : Tail(d)[i][col] = key THEN rest
          ELSE IF Head(d)[col] = key THEN Head(d).count ELSE 0

\* sum of count over the rows of one group
RECURSIVE GroupSum(_, _, _)
GroupSum(d, col, key) ==
  IF d = <<>> THEN 0
  ELSE (IF Head(d)[col] = key THEN Head(d).count ELSE 0)
       + GroupSum(Tail(d), col, key)

\* data.groupby(col)['count'].sum(): one entry per key, keys ascending
groupby_sum(d, col) ==
  LET keys == SortedKeys({d[i][col] : i \in 1..Len(d)})
  IN [k \in 1..Len(keys) |->
        [key |-> keys[k], count |-> GroupSum(d, col, keys[k])]]

\* Series.reset_index(): the group key becomes the column named col
reset_index(g, col) ==
  [k \in 1..Len(g) |->
     [c \in {col, "count"} |-> IF c = "count" THEN g[k].count ELSE g[k].key]]

\* position of the first maximum of a series
FirstMaxPos(s) ==
  CHOOSE i \in 1..Len(s) :
    /\ \A j \in 1..Len(s) : s[j].count <= s[i].count
    /\ \A j \in 1..(i - 1) : s[j].count < s[i].count

RemoveAt(s, i) == SubSeq(s, 1, i - 1) \o SubSeq(s, i + 1, Len(s))

\* variant: the first n entries in group order, unsorted
nlargest_head(s, n) == SubSeq(s, 1, IF Len(s) < n THEN Len(s) ELSE n)

\* Series.nlargest(n), keep='first': descending, ties in order of appearance
RECURSIVE nlargest(_, _)
nlargest(s, n) ==
  IF n = 0 \/ s = <<>> THEN <<>>
  ELSE LET i == FirstMaxPos(s)
       IN <<s[i]>> \o nlargest(RemoveAt(s, i), n - 1)

\* round n/d (d > 0) to the nearest integer, ties to even, as '.1f' does
RoundHalfEven(n, d) ==
  LET q == n \div d
      r == n % d
  IN IF 2 * r < d THEN q
     ELSE IF 2 * r > d THEN q + 1
     ELSE IF q % 2 = 0 THEN q ELSE q + 1

\* variant: the percentage branch taken for a single year as well
growth_of_single(yc) ==
  IF Len(yc) > 0
    THEN LET first == yc[1].count
             last == yc[Len(yc)].count
         IN IF first = 0
              THEN IF last - first = 0
                     THEN [str |-> [kind |-> "nan", tenths |-> 0],
                           color |-> "green"]
                     ELSE [str |-> [kind |-> "inf", tenths |-> 0],
                           color |-> "red"]
              ELSE [str |-> [kind |-> "pct",
                             tenths |-> RoundHalfEven((last - first) * 1000,
                                                      first)],
                    color |-> IF last - first > 0 THEN "red" ELSE "green"]
    ELSE [str |-> [kind |-> "N/A", tenths |-> 0], color |-> "black"]

\* the growth branch: numpy division, then f"{growth:+.1f}%"
\* kind "pct" carries the percentage in tenths; int64 / 0 is inf or nan
growth_of(yc) ==
  IF Len(yc) > 1
    THEN LET first == yc[1].count
             last == yc[Len(yc)].count
         IN IF first = 0
              THEN IF last - first = 0
                     THEN [str |-> [kind |-> "nan", tenths |-> 0],
                           color |-> "green"]
                     ELSE [str |-> [kind |-> "inf", tenths |-> 0],
                           color |-> "red"]
              ELSE [str |-> [kind |-> "pct",
                             tenths |-> RoundHalfEven((last - first) * 1000,
                                                      first)],
                    color |-> IF last - first > 0 THEN "red" ELSE "green"]
    ELSE [str |-> [kind |-> "N/A", tenths |-> 0], color |-> "black"]

\* ------------------------------------------------------------ script steps
Init ==
  /\ file \in {NoFile} \cup {FileWith(t) : t \in Tables}
  /\ cache = <<>>
  /\ loadCalls = 0
  /\ pc = "load"
  /\ ns = EmptyNs
  /\ rendered = <<>>

\* variant: a None result is not kept in the cache
LoadData_NoCacheNone ==
  /\ pc = "load"
  /\ IF cache = <<>> \/ cache = <<NoneV>>
       THEN /\ cache' = <<load_data(file)>>
            /\ loadCalls' = loadCalls + 1
       ELSE UNCHANGED <<cache, loadCalls>>
  /\ ns' = ns @@ [df |-> cache'[1]]
  /\ rendered' = rendered \o <<"page_config", "css">>
  /\ pc' = "sidebar"
  /\ UNCHANGED file

\* lines 8-42: page config, CSS, df = load_data() through st.cache_data
LoadData ==
  /\ pc = "load"
  /\ IF cache = <<>>
       THEN /\ cache' = <<load_data(file)>>
            /\ loadCalls' = loadCalls + 1
       ELSE UNCHANGED <<cache, loadCalls>>
  /\ ns' = ns @@ [df |-> cache'[1]]
  /\ rendered' = rendered \o <<"page_config", "css">>
  /\ pc' = "sidebar"
  /\ UNCHANGED file

\* variant: the error is shown without st.stop(); line 55 then raises on None
SidebarOffline_NoStop ==
  /\ pc = "sidebar"
  /\ ns.df.isNone
  /\ rendered' = rendered \o <<"sidebar.title", "sidebar.caption",
                               "sidebar.divider", "sidebar.error">>
  /\ pc' = "fault"
  /\ UNCHANGED <<file, cache, loadCalls, ns>>

\* lines 45-52: sidebar header, then the df is None branch
SidebarOffline ==
  /\ pc = "sidebar"
  /\ ns.df.isNone
  /\ rendered' = rendered \o <<"sidebar.title", "sidebar.caption",
                               "sidebar.divider", "sidebar.error">>
  /\ pc' = "offline"
  /\ UNCHANGED <<file, cache, loadCalls, ns>>

\* lines 45-65: sidebar header, drug selector, year slider, checkboxes
SidebarTools ==
  /\ pc = "sidebar"
  /\ ~ns.df.isNone
  /\ LET df == ns.df.rows
         all_drugs == {df[i].drugname : i \in 1..Len(df)}
         years == {df[i].year : i \in 1..Len(df)}
     IN IF years = {}
          \* min(years) of an empty list raises ValueError
          THEN /\ \E sd \in {Placeholder} \cup all_drugs :
                    ns' = ns @@ [selected_drug |-> sd]
               /\ rendered' = rendered \o <<"sidebar.title", "sidebar.caption",
                                            "sidebar.divider", "selectbox">>
               /\ pc' = "fault"
          ELSE /\ \E sd \in {Placeholder} \cup all_drugs :
                  \E lo \in years : \E hi \in years :
                  \E raw \in BOOLEAN :
                    /\ lo <= hi
                    /\ ns' = ns @@ [selected_drug |-> sd,
                                    selected_years |-> <<lo, hi>>,
                                    show_raw |-> raw]
               /\ rendered' = rendered \o <<"sidebar.title", "sidebar.caption",
                                            "sidebar.divider", "selectbox",
                                            "select_slider", "sidebar.divider",
                                            "checkbox", "checkbox">>
               /\ pc' = "main"
  /\ UNCHANGED <<file, cache, loadCalls>>

\* lines 153-162: no drug chosen
Landing ==
  /\ pc = "main"
  /\ ns.selected_drug = Placeholder
  /\ rendered' = rendered \o <<"info", "capabilities">>
  /\ pc' = "done"
  /\ UNCHANGED <<file, cache, loadCalls, ns>>

\* lines 68-86: filter, header, export button
FilterData ==
  /\ pc = "main"
  /\ ns.selected_drug # Placeholder
  /\ ns' = ns @@ [data |-> Filter(ns.df.rows, ns.selected_drug,
                                   ns.selected_years[1], ns.selected_years[2])]
  /\ rendered' = rendered \o <<"title", "period", "download_button">>
  /\ pc' = "guard"
  /\ UNCHANGED <<file, cache, loadCalls>>

\* variant: the warning is shown without st.stop(); idxmax then raises
EmptyStop_NoStop ==
  /\ pc = "guard"
  /\ ns.data = <<>>
  /\ ns' = ns @@ [total_events |-> SumCount(ns.data)]
  /\ rendered' = rendered \o <<"warning", "divider">>
  /\ pc' = "fault"
  /\ UNCHANGED <<file, cache, loadCalls>>

\* lines 88-90: data.empty
EmptyStop ==
  /\ pc = "guard"
  /\ ns.data = <<>>
  /\ rendered' = rendered \o <<"warning">>
  /\ pc' = "no_reports"
  /\ UNCHANGED <<file, cache, loadCalls, ns>>

\* lines 88-114: KPIs, growth, KPI cards
KPIs ==
  /\ pc = "guard"
  /\ ns.data # <<>>
  /\ LET data == ns.data
         yc == groupby_sum(data, "year")
         g == growth_of(yc)
     IN ns' = ns @@ [total_events |-> SumCount(data),
                     top_event_row |-> loc(data, idxmax(data)),
                     unique_pt |-> nunique(data),
                     yearly_counts |-> yc,
                     growth_str |-> g.str,
                     growth_color |-> g.color]
  /\ rendered' = rendered \o <<"divider", "kpi1", "kpi2", "kpi3", "kpi4">>
  /\ pc' = "charts"
  /\ UNCHANGED <<file, cache, loadCalls>>

\* lines 116-151: top-10 bar chart, yearly line chart, raw data expander
Charts ==
  /\ pc = "charts"
  /\ ns' = ns @@ [top_10 |-> reset_index(nlargest(groupby_sum(ns.data, "pt"),
                                                    TopN), "pt"),
                  trend_data |-> reset_index(groupby_sum(ns.data, "year"),
                                             "year")]
  /\ rendered' = rendered \o <<"header", "tabs", "bar_chart", "line_chart">>
                           \o (IF ns.show_raw THEN <<"raw_header", "dataframe">>
                                              ELSE <<>>)
  /\ pc' = "done"
  /\ UNCHANGED <<file, cache, loadCalls>>

\* a widget interaction or page reload: the script starts over
Rerun ==
  /\ pc # "load"
  /\ pc' = "load"
  /\ ns' = EmptyNs
  /\ rendered' = <<>>
  /\ UNCHANGED <<file, cache, loadCalls>>

\* the environment removes the backing file
FileRemoved ==
  /\ file.exists
  /\ file' = NoFile
  /\ UNCHANGED <<cache, loadCalls, pc, ns, rendered>>

\* the environment uploads a (new) backing file
FileUploaded ==
  /\ file # FileWith(Replacement)
  /\ file' = FileWith(Replacement)
  /\ UNCHANGED <<cache, loadCalls, pc, ns, rendered>>

Next ==
  \/ LoadData
  \/ SidebarOffline
  \/ SidebarTools
  \/ Landing
  \/ FilterData
  \/ EmptyStop
  \/ KPIs
  \/ Charts
  \/ Rerun
  \/ FileRemoved
  \/ FileUploaded

Spec == Init /\ [][Next]_vars

TypeOK ==
  /\ pc \in {"load", "sidebar", "offline", "fault", "main", "guard",
             "no_reports", "charts", "done"}
  /\ loadCalls \in 0..1
  /\ Len(cache) <= 1

\* ------------------------------------------------- vocabulary of the claims
YearsOf(d) == {d[i].year : i \in 1..Len(d)}
TermsOf(d) == {d[i].pt : i \in 1..Len(d)}
MinOf(S) == CHOOSE x \in S : \A y \in S : x <= y
MaxOf(S) == CHOOSE x \in S : \A y \in S : x >= y

\* sum of count over the positions I of a table or series
RECURSIVE SumOver(_, _)
SumOver(I, d) ==
  IF I = {} THEN 0
  ELSE LET i == CHOOSE x \in I : TRUE IN d[i].count + SumOver(I \ {i}, d)

TotalWhere(d, col, key) == SumOver({i \in 1..Len(d) : d[i][col] = key}, d)

\* the rows of df a selection asks for, in the order of df
Expected(df, drug, lo, hi) ==
  LET Wanted(r) == r.drugname = drug /\ lo <= r.year /\ r.year <= hi
  IN SelectSeq(df, Wanted)

AggregateNames == {"total_events", "top_event_row", "unique_pt",
                   "yearly_counts", "growth_str", "growth_color", "top_10",
                   "trend_data"}
Chrome == {"page_config", "css", "sidebar.title", "sidebar.caption",
           "sidebar.divider"}
Elements(r) == {r[i] : i \in 1..Len(r)}

\* ------------------------------------------------------------------ claims

\* C1: whenever the filtered rows span at least two distinct years and the
\* earliest year's total is 0, the growth shown is the undefined sentinel N/A
\* (not inf, not nan, not a number).
C1_ZeroBaseUndefined ==
  (/\ Bound("growth_str")
   /\ Cardinality(YearsOf(ns.data)) >= 2
   /\ TotalWhere(ns.data, "year", MinOf(YearsOf(ns.data))) = 0)
  => ns.growth_str.kind = "N/A"

\* C2 as stated: once a selection has matched zero rows and the run has gone
\* past the filter, there is no fault, the row-maximum lookup was not made,
\* and the run holds total 0, unique-term count 0, an empty ranking, an empty
\* yearly series and growth N/A.
C2_EmptyAggregate ==
  (Bound("data") /\ ns.data = <<>> /\ pc # "guard")
  => /\ pc # "fault"
     /\ ~Bound("top_event_row")
     /\ Bound("total_events") /\ ns.total_events = 0
     /\ Bound("unique_pt") /\ ns.unique_pt = 0
     /\ Bound("top_10") /\ ns.top_10 = <<>>
     /\ Bound("yearly_counts") /\ ns.yearly_counts = <<>>
     /\ Bound("growth_str") /\ ns.growth_str.kind = "N/A"

\* C2 amended: a selection that matches zero rows never faults and never
\* reaches the row-maximum lookup; the run shows the header, the export
\* button and the "no reports" warning and stops there, with no aggregate
\* (total, term count, top term, ranking, yearly series, growth) computed.
C2_EmptyHalts ==
  (Bound("data") /\ ns.data = <<>>)
  => /\ pc \in {"guard", "no_reports"}
     /\ AggregateNames \cap DOMAIN ns = {}
     /\ Elements(rendered) \cap {"kpi1", "kpi2", "kpi3", "kpi4", "bar_chart",
                                 "line_chart", "dataframe"} = {}
     /\ pc = "no_reports"
          => /\ rendered[Len(rendered)] = "warning"
             /\ "download_button" \in Elements(rendered)

\* a non-empty table in which the chosen drug has rows, none in the period
C2_Witness ==
  /\ pc = "no_reports"
  /\ \E i \in 1..Len(ns.df.rows) : ns.df.rows[i].drugname = ns.selected_drug

\* C3 as stated: when load_data found the file missing, the run stops at the
\* offline halt having rendered nothing but the error (page configuration
\* and CSS are not counted as UI elements) and having bound no widget value.
C3_NoPartialUi ==
  (Bound("df") /\ ns.df.isNone)
  => /\ pc \in {"sidebar", "offline"}
     /\ Elements(rendered) \subseteq {"page_config", "css", "sidebar.error"}
     /\ DOMAIN ns = {"df"}

\* C3 amended: when load_data found the file missing, the run stops at the
\* offline halt; what it renders before the halt is the page configuration,
\* the CSS, the sidebar title, caption and divider, and then the error, and
\* no selector, slider, filter, export or aggregate step is reached.
C3_OfflineHalt ==
  (Bound("df") /\ ns.df.isNone)
  => /\ pc \in {"sidebar", "offline"}
     /\ Elements(rendered) \subseteq Chrome \cup {"sidebar.error"}
     /\ DOMAIN ns = {"df"}
     /\ pc = "offline"
          => rendered = <<"page_config", "css", "sidebar.title",
                          "sidebar.caption", "sidebar.divider",
                          "sidebar.error">>

C3_Witness == pc = "offline" /\ ~file.exists /\ cache = <<NoneV>>

\* C4: the top adverse event is the term of the first row, in filtered row
\* order, whose count is the largest single-row count.
C4_TopTermRowMax ==
  Bound("top_event_row")
  => LET d == ns.data
     IN \E i \in 1..Len(d) :
          /\ ns.top_event_row = d[i]
          /\ \A j \in 1..Len(d) : d[j].count <= d[i].count
          /\ \A j \in 1..(i - 1) : d[j].count < d[i].count

\* two rows of different terms tie for the largest count, and another term
\* has a larger summed count than the reported top term
C4_Witness ==
  /\ Bound("top_event_row")
  /\ LET d == ns.data
         top == ns.top_event_row
     IN /\ \E j \in 1..Len(d) :
             d[j].count = top.count /\ d[j].pt # top.pt
        /\ \E t \in TermsOf(d) :
             TotalWhere(d, "pt", t) > TotalWhere(d, "pt", top.pt)

\* C5: the filtered rows are exactly the rows of the chosen drug whose year
\* lies in the closed period, in input order; this holds for any drug and
\* any bounds (also bounds outside the observed years, which give no rows),
\* and filtering the result again with the same parameters changes nothing.
C5_FilterExact ==
  pc = "guard"
  => LET df == ns.df.rows
     IN /\ ns.data = Expected(df, ns.selected_drug, ns.selected_years[1],
                              ns.selected_years[2])
        /\ \A drug \in Drugs : \A lo \in YearsExt : \A hi \in YearsExt :
             LET f == Filter(df, drug, lo, hi)
             IN /\ f = Expected(df, drug, lo, hi)
                /\ Filter(f, drug, lo, hi) = f
                /\ (\A y \in YearsOf(df) : y < lo \/ y > hi) => f = <<>>

\* the filter kept some rows, dropped one for its drug and one for its year
C5_Witness ==
  /\ pc = "guard"
  /\ ns.data # <<>>
  /\ LET df == ns.df.rows
     IN /\ \E i \in 1..Len(df) : df[i].drugname # ns.selected_drug
        /\ \E i \in 1..Len(df) :
             /\ df[i].drugname = ns.selected_drug
             /\ df[i].year > ns.selected_years[2]

\* C6: the total of all filtered counts equals the sum of the yearly totals.
C6_TotalIsSumOfYears ==
  Bound("yearly_counts")
  => /\ ns.total_events = SumOver(1..Len(ns.yearly_counts), ns.yearly_counts)
     /\ Bound("trend_data")
          => ns.total_events = SumOver(1..Len(ns.trend_data), ns.trend_data)

\* two years with positive totals, one of them made of several rows
C6_Witness ==
  /\ Bound("trend_data")
  /\ Len(ns.yearly_counts) = 2
  /\ ns.yearly_counts[1].count = 2
  /\ ns.yearly_counts[2].count = 1

\* C7: the ranking has at most TopN entries, each term at most once, each
\* with the sum of count over all rows of that term, in non-increasing order
\* of that sum, and no term left out has a larger sum than a term kept.
C7_Top10 ==
  Bound("top_10")
  => LET t == ns.top_10
         d == ns.data
     IN /\ Len(t) <= TopN
        /\ \A i \in 1..Len(t) : \A j \in 1..Len(t) :
             /\ i # j => t[i].pt # t[j].pt
             /\ i < j => t[i].count >= t[j].count
        /\ \A i \in 1..Len(t) :
             /\ t[i].pt \in TermsOf(d)
             /\ t[i].count = TotalWhere(d, "pt", t[i].pt)
        /\ \A term \in TermsOf(d) \ {t[i].pt : i \in 1..Len(t)} :
             \A i \in 1..Len(t) : TotalWhere(d, "pt", term) <= t[i].count

\* more than TopN terms: the ranking is full, it is led by a term whose two
\* rows were summed, and the term left out has the smallest sum
C7_Witness ==
  /\ Bound("top_10")
  /\ Len(ns.top_10) = TopN
  /\ Cardinality(TermsOf(ns.data)) > TopN
  /\ ns.top_10[1].count = 2
  /\ ns.top_10[TopN].count = 1

\* C8: the yearly series has exactly one entry per distinct year of the
\* filtered rows, strictly ascending by year, so its first and last entries
\* are the totals of the earliest and of the latest year, and a percentage
\* growth is positive exactly when the latest total exceeds the earliest.
C8_YearlySeries ==
  Bound("yearly_counts")
  => LET yc == ns.yearly_counts
         d == ns.data
         n == Len(yc)
     IN /\ {yc[i].key : i \in 1..n} = YearsOf(d)
        /\ n = Cardinality(YearsOf(d))
        /\ \A i \in 1..n : \A j \in 1..n : i < j => yc[i].key < yc[j].key
        /\ yc[1].key = MinOf(YearsOf(d))
        /\ yc[1].count = TotalWhere(d, "year", MinOf(YearsOf(d)))
        /\ yc[n].key = MaxOf(YearsOf(d))
        /\ yc[n].count = TotalWhere(d, "year", MaxOf(YearsOf(d)))
        /\ ns.growth_str.kind = "pct"
             => (ns.growth_color = "red" <=> yc[n].count > yc[1].count)
        /\ Bound("trend_data")
             => /\ Len(ns.trend_data) = n
                /\ \A i \in 1..n : /\ ns.trend_data[i].year = yc[i].key
                                   /\ ns.trend_data[i].count = yc[i].count

\* the rows arrive latest year first, and the two yearly totals differ
C8_Witness ==
  /\ Bound("trend_data")
  /\ Len(ns.yearly_counts) = 2
  /\ ns.data[1].year > ns.data[Len(ns.data)].year
  /\ ns.yearly_counts[1].count > ns.yearly_counts[2].count
  /\ ns.growth_str.kind = "pct"

C10_LoadOnce ==
  [][/\ cache # <<>> => cache' = cache
     /\ loadCalls' <= 1
     /\ "df" \in DOMAIN ns' => ns'.df = cache'[1]
     /\ cache' = <<NoneV>> => pc' \in {"load", "sidebar", "offline"}]_vars

\* the file has appeared after the first load found it missing, and the
\* run is halted offline all the same
C10_Witness ==
  /\ cache = <<NoneV>>
  /\ file.exists
  /\ pc = "offline"
  /\ loadCalls = 1
====
